---- MODULE Spec2Model ----
(***************************************************************************)
(* Model of hive/utils/registry.py: the Registry of named constructors,    *)
(* the per-family getter installed by register, construct_objects (the     *)
(* recursive resolution of family-typed keyword arguments) and             *)
(* get_parsed_args (command line overrides read through argparse).         *)
(*                                                                         *)
(* Python strings that are compared character by character (parameter      *)
(* names, prefixes, option strings) are sequences of one-character         *)
(* strings.  Python values are records [k, s, kw, id]: k is the kind, s    *)
(* the text of a scalar or the "name" of a fragment, kw the "kwargs" of    *)
(* a fragment and id the address of an object on the heap.                 *)
(***************************************************************************)
EXTENDS Integers, Sequences, FiniteSets, TLC

VARIABLES
    registry,   \* Registry._registry: type name -> (variant name -> constructor)
    getters,    \* the get_<type name> attributes set on the Registry class
    argv,       \* sys.argv[1:], as (option string, value) pairs
    session,    \* the type whose getter the caller is using, if any
    doc,        \* the caller's configuration document (a mutable dict) or value
    heap,       \* the objects constructed so far
    ncalls,     \* number of get calls made on the current document
    latest,     \* history: the constructor most recently registered per (type name, name)
    last        \* the most recent API call: its inputs, result and log

vars == <<registry, getters, argv, session, doc, heap, ncalls, latest, last>>

-----------------------------------------------------------------------------
(* Bounds *)

\* get calls made on one configuration document before it is dropped
MaxCalls == 2

-----------------------------------------------------------------------------
(* Strings *)

\* parameter names, a caller's prefix, and argparse's own --help option
pX == <<"x">>
pXY == <<"x", "y">>
pSub == <<"s", "u", "b">>
pfxA == <<"a">>
help == <<"h", "e", "l", "p">>
dot == <<".">>

\* prefix=None (registry.py:36, 76, 86)
NonePrefix == <<"None">>

StartsWith(s, p) == Len(p) <= Len(s) /\ SubSeq(s, 1, Len(p)) = p

Strip(s, n) == SubSeq(s, n + 1, Len(s))

-----------------------------------------------------------------------------
(* Python values *)

Empty == <<>>

PyNone == [k |-> "None", s |-> "", kw |-> Empty, id |-> 0]
PyScalar(kind, text) == [k |-> kind, s |-> text, kw |-> Empty, id |-> 0]
PyDict(name, kwargs) == [k |-> "dict", s |-> name, kw |-> kwargs, id |-> 0]
PyObj(i) == [k |-> "obj", s |-> "", kw |-> Empty, id |-> i]
\* what a call that raised leaves in place of a result
NoValue == [k |-> "raised", s |-> "", kw |-> Empty, id |-> 0]

\* dict.update(other): other's items win
Update(d, other) == other @@ d

\* d[key] = value
SetItem(d, key, value) == (key :> value) @@ d

-----------------------------------------------------------------------------
(* The classes and constructors of the program using the registry *)

\* Registrable subclasses that define type_name
FamilyTypes == {"F", "G", "H"}

\* subclasses of CallableType (as FunctionApproximator is): their instances
\* wrap a function and are registered as constructors
CallableTypes == {"H"}

\* a type that is not Registrable
OtherTypes == {"int"}

IsRegistrable(type) == type \in FamilyTypes

type_name(type) ==
    CASE type = "F" -> "f"
      [] type = "G" -> "g"
      [] type = "H" -> "h"

\* an inspect.Parameter, and a bare type object
Parameter(name, annotation) == [cls |-> "Parameter", name |-> name, annotation |-> annotation]
TypeObject(type) == [cls |-> "type", name |-> <<>>, annotation |-> type]

\* a constructor: the class it is or, for an instance of a CallableType, the
\* type it is an instance of (wrapper), and the signature inspect.signature
\* reports for it (through __wrapped__ for a CallableType, "self" removed)
Ctors == {"F0", "F1", "G1", "H1"}

NoCtor == "none"

Base(c) ==
    CASE c = "F0" -> "F"
      [] c = "F1" -> "F"
      [] c = "G1" -> "G"
      [] c = "H1" -> "H"

IsWrapper(c) == Base(c) \in CallableTypes

Signature(c) ==
    CASE c = "F0" -> <<Parameter(pXY, "str")>>
      [] c = "F1" -> <<Parameter(pSub, "G"), Parameter(pX, "float")>>
      [] c = "G1" -> <<Parameter(pSub, "H"), Parameter(pX, "int")>>
      [] c = "H1" -> <<Parameter(pXY, "bool")>>

ParamNames(c) == {Signature(c)[i].name : i \in 1..Len(Signature(c))}

Annotation(c, p) ==
    LET i == CHOOSE j \in 1..Len(Signature(c)) : Signature(c)[j].name = p
    IN  Signature(c)[i].annotation

\* the names variants are registered under
VariantNames(type) == IF type = "F" THEN {"A", "B"} ELSE {"A"}

-----------------------------------------------------------------------------
(* The command line *)

FragText == "{name: A, kwargs: {}}"

\* yaml.safe_load of a flag's text
safe_load(text) ==
    CASE text = "5" -> PyScalar("int", "5")
      [] text = "3.5" -> PyScalar("float", "3.5")
      [] text = FragText -> PyDict("A", Empty)
      [] OTHER -> PyScalar("str", text)

\* int(text), bool(text), str(text), float(text); NoValue for a ValueError
Construct(type, text) ==
    CASE type = "str" -> PyScalar("str", text)
      [] type = "bool" -> PyScalar("bool", IF text = "" THEN "False" ELSE "True")
      [] type = "int" -> IF text = "5" THEN PyScalar("int", "5") ELSE NoValue
      [] type = "float" ->
            IF text = "5" THEN PyScalar("float", "5.0")
            ELSE IF text = "3.5" THEN PyScalar("float", "3.5") ELSE NoValue

PrimitiveTypes == {"int", "bool", "str", "float"}

\* obj in [int, bool, str, float]: true of a type object only
InTypes(obj, types) == obj.cls = "type" /\ obj.annotation \in types

\* argparse's matching of one option string of the command line against the
\* options of a parser (allow_abbrev is left at its default): the option
\* itself when it is one, otherwise every option it is a prefix of
Matches(flag, options) ==
    IF flag \in options THEN {flag} ELSE {o \in options : StartsWith(o, flag)}

\* the index of the last occurrence on the command line of a flag matching
\* the option, 0 if none
LastSupplied(option, options) ==
    LET hits == {i \in 1..Len(argv) : Matches(argv[i].flag, options) = {option}}
    IN  IF hits = {} THEN 0 ELSE CHOOSE i \in hits : \A j \in hits : j <= i

\* get_parsed_args(arguments, prefix): arguments maps a name to the object
\* describing it.  Returns [err, raw, parsed]: raw holds the texts argparse
\* found, parsed the converted values
get_parsed_args(arguments, prefix) ==
    LET prefixStr == IF prefix = NonePrefix THEN <<>> ELSE prefix \o dot
        Dest(p) == prefixStr \o p
        options == {Dest(p) : p \in DOMAIN arguments} \cup {help}
        ambiguous == \E i \in 1..Len(argv) : Cardinality(Matches(argv[i].flag, options)) > 1
        helped == \E i \in 1..Len(argv) : Matches(argv[i].flag, options) = {help}
        supplied == {key \in options \ {help} : LastSupplied(key, options) # 0}
        StripKey(key) == IF StartsWith(key, prefixStr) THEN Strip(key, Len(prefixStr)) ELSE key
        raw == [p \in {StripKey(key) : key \in supplied} |->
                    argv[LastSupplied(Dest(p), options)].text]
        parsed == [p \in DOMAIN raw |->
                    LET expected_type == arguments[p]
                    IN  IF InTypes(expected_type, PrimitiveTypes)
                        THEN Construct(expected_type.annotation, raw[p])
                        ELSE safe_load(raw[p])]
    IN  IF ambiguous \/ helped
        THEN [err |-> "SystemExit", raw |-> Empty, parsed |-> Empty]
        ELSE IF \E p \in DOMAIN parsed : parsed[p] = NoValue
        THEN [err |-> "ValueError", raw |-> raw, parsed |-> Empty]
        ELSE [err |-> "", raw |-> raw, parsed |-> parsed]

get_callable_parsed_args(callable, prefix) ==
    LET arguments == [p \in ParamNames(callable) |->
                        Parameter(p, Annotation(callable, p))]
    IN  get_parsed_args(arguments, prefix)

-----------------------------------------------------------------------------
(* Objects *)

\* object_class(**kwargs) for a class: a new instance, or the TypeError of
\* an unexpected keyword argument
NewInstance(object_class, kwargs, hp) ==
    IF DOMAIN kwargs \subseteq ParamNames(object_class)
    THEN [err |-> "",
          heap |-> Append(hp, [kind |-> "inst", ctor |-> object_class, kwargs |-> kwargs])]
    ELSE [err |-> "TypeError", heap |-> hp]

\* CallableType.__call__: partial(self._fn, **kwargs)
CallableType_call(object_class, kwargs, hp) ==
    [err |-> "",
     heap |-> Append(hp, [kind |-> "partial", ctor |-> object_class, kwargs |-> kwargs])]

Invoke(object_class, kwargs, hp) ==
    IF IsWrapper(object_class)
    THEN CallableType_call(object_class, kwargs, hp)
    ELSE NewInstance(object_class, kwargs, hp)

IsInstanceNever(value, type, hp) == FALSE

IsInstanceAny(value, type, hp) == value.k = "obj"

\* isinstance(value, type)
IsInstance(value, type, hp) ==
    /\ value.k = "obj"
    /\ hp[value.id].kind = "inst"
    /\ Base(hp[value.id].ctor) = type

-----------------------------------------------------------------------------
(* The getter and construct_objects *)

\* the outcome of a call: the value returned (res) or the exception raised
\* (err, errName: the name the message gives), the argument as the call
\* left it (val), the heap, and the log of the constructors invoked and of
\* the command lines parsed
Outcome(res, err, errName, val, hp, calls, parses) ==
    [res |-> res, err |-> err, errName |-> errName, val |-> val, heap |-> hp,
     calls |-> calls, parses |-> parses]

Return(res, val, hp, calls, parses) == Outcome(res, "", "", val, hp, calls, parses)

Raise(err, errName, val, hp, calls, parses) ==
    Outcome(NoValue, err, errName, val, hp, calls, parses)

\* the value of the one element of a singleton set: The({F(v) : v \in {e}})
\* is F(e) with e evaluated once
The(S) == CHOOSE v \in S : TRUE

RECURSIVE getter(_, _, _, _)
RECURSIVE construct_loop(_, _, _, _, _, _, _)

\* config[argument] = get_<type name>(config[argument], ...), given the
\* outcome r of that get, and the rest of the loop
construct_step(object_constructor, i, config, prefix, argument, calls, parses, r) ==
    IF r.err # ""
    THEN Raise(r.err, r.errName, PyDict("", SetItem(config, argument, r.val)),
               r.heap, calls \o r.calls, parses \o r.parses)
    ELSE construct_loop(object_constructor, i + 1, SetItem(config, argument, r.res),
                        prefix, r.heap, calls \o r.calls, parses \o r.parses)

\* the body of construct_objects's loop, from parameter number i on
construct_loop(object_constructor, i, config, prefix, hp, calls, parses) ==
    LET signature == Signature(object_constructor)
    IN  IF i > Len(signature)
        THEN Return(PyNone, PyDict("", config), hp, calls, parses)
        ELSE
        LET argument == signature[i].name
            expected_type == signature[i].annotation
        IN  IF argument \notin DOMAIN config
            THEN construct_loop(object_constructor, i + 1, config, prefix, hp, calls, parses)
            ELSE IF ~IsRegistrable(expected_type)
            THEN construct_loop(object_constructor, i + 1, config, prefix, hp, calls, parses)
            ELSE IF type_name(expected_type) \notin DOMAIN getters
            THEN Raise("AttributeError", type_name(expected_type),
                       PyDict("", config), hp, calls, parses)
            ELSE The({construct_step(object_constructor, i, config, prefix, argument,
                                     calls, parses, r) :
                      r \in {getter(getters[type_name(expected_type)], config[argument],
                                    prefix \o argument, hp)}})

\* construct_objects(object_constructor, config, prefix); the config it
\* returns (and has changed in place) is val.kw
construct_objects(object_constructor, config, prefix, hp) ==
    construct_loop(object_constructor, 1, config,
                   IF prefix = NonePrefix THEN <<>> ELSE prefix \o dot,
                   hp, <<>>, <<>>)

\* raise ValueError(f"{name} class not found")
NotFoundSentinel(name, object_or_config, hp) ==
    Return(PyNone, object_or_config, hp, <<>>, <<>>)

NotFound(name, object_or_config, hp) ==
    Raise("ValueError", name, object_or_config, hp, <<>>, <<>>)

\* the signature construct_objects is given by the getter
ResolvedConstructor(closure, object_class) == closure.constructor

\* return object_class(**kwargs), given the outcome co of construct_objects
getter_invoke(object_class, name, prefix, parse, co) ==
    LET final == co.val.kw
    IN  IF co.err # ""
        THEN Raise(co.err, co.errName, PyDict(name, final), co.heap,
                   co.calls, <<parse>> \o co.parses)
        ELSE The({IF made.err # ""
                  THEN Raise(made.err, "", PyDict(name, final), co.heap,
                             co.calls, <<parse>> \o co.parses)
                  ELSE Return(PyObj(Len(made.heap)), PyDict(name, final), made.heap,
                              Append(co.calls,
                                     [ctor |-> object_class, kwargs |-> final,
                                      prefix |-> prefix, id |-> Len(made.heap)]),
                              <<parse>> \o co.parses) :
                  made \in {Invoke(object_class, final, co.heap)}})

\* kwargs.update(parsed_args) and construct_objects, given parsed_args
getter_resolve(closure, object_class, object_or_config, prefix, hp, parsed_args) ==
    LET parse == [ctor |-> object_class, prefix |-> prefix, err |-> parsed_args.err,
                  raw |-> parsed_args.raw, parsed |-> parsed_args.parsed]
    IN  IF parsed_args.err # ""
        THEN Raise(parsed_args.err, "", object_or_config, hp, <<>>, <<parse>>)
        ELSE The({getter_invoke(object_class, object_or_config.s, prefix, parse, co) :
                  co \in {construct_objects(ResolvedConstructor(closure, object_class),
                                            Update(object_or_config.kw, parsed_args.parsed),
                                            prefix, hp)}})

\* getter(self, object_or_config, prefix), closed over the type and the
\* constructor of the register call that defined it
getter(closure, object_or_config, prefix, hp) ==
    IF object_or_config = PyNone
    THEN Return(PyNone, object_or_config, hp, <<>>, <<>>)
    ELSE IF IsInstance(object_or_config, closure.type, hp)
    THEN Return(object_or_config, object_or_config, hp, <<>>, <<>>)
    ELSE IF object_or_config.k # "dict"
    THEN Raise("TypeError", "", object_or_config, hp, <<>>, <<>>)
    ELSE
    LET name == object_or_config.s
        table == registry[type_name(closure.type)]
    IN  IF name \in DOMAIN table
        THEN The({getter_resolve(closure, table[name], object_or_config, prefix, hp,
                                 parsed_args) :
                  parsed_args \in {get_callable_parsed_args(table[name], prefix)}})
        ELSE NotFound(name, object_or_config, hp)

\* registry.get_<type name>(object_or_config, prefix): the attribute lookup,
\* then the getter
get(type, object_or_config, prefix, hp) ==
    IF type_name(type) \notin DOMAIN getters
    THEN Raise("AttributeError", type_name(type), object_or_config, hp, <<>>, <<>>)
    ELSE getter(getters[type_name(type)], object_or_config, prefix, hp)

-----------------------------------------------------------------------------
(* Registration *)

\* the getter attribute a first registration sets on the Registry class
\* (registry.py:36-52); installs counts the setattr calls on it
InstallGetter(gs, constructor, type) ==
    LET attr == type_name(type)
        before == IF attr \in DOMAIN gs THEN gs[attr].installs ELSE 0
    IN  SetItem(gs, attr,
                [constructor |-> constructor, type |-> type, installs |-> before + 1])

\* register keeping the constructor a name already has
registerKeepFirst(reg, gs, name, constructor, type) ==
    IF ~IsRegistrable(type)
    THEN [err |-> "ValueError", registry |-> reg, getters |-> gs]
    ELSE
    LET first == type_name(type) \notin DOMAIN reg
        reg1 == IF first THEN SetItem(reg, type_name(type), Empty) ELSE reg
        gs1 == IF first THEN InstallGetter(gs, constructor, type) ELSE gs
    IN  [err |-> "",
         registry |-> [reg1 EXCEPT ![type_name(type)] =
                            IF name \in DOMAIN @ THEN @ ELSE SetItem(@, name, constructor)],
         getters |-> gs1]

\* register defining and setting the getter on every call
registerReinstall(reg, gs, name, constructor, type) ==
    IF ~IsRegistrable(type)
    THEN [err |-> "ValueError", registry |-> reg, getters |-> gs]
    ELSE
    LET first == type_name(type) \notin DOMAIN reg
        reg1 == IF first THEN SetItem(reg, type_name(type), Empty) ELSE reg
    IN  [err |-> "",
         registry |-> [reg1 EXCEPT ![type_name(type)] = SetItem(@, name, constructor)],
         getters |-> InstallGetter(gs, constructor, type)]

\* Registry.register(name, constructor, type) on the tables reg and the
\* attributes gs
register(reg, gs, name, constructor, type) ==
    IF ~IsRegistrable(type)
    THEN [err |-> "ValueError", registry |-> reg, getters |-> gs]
    ELSE
    LET first == type_name(type) \notin DOMAIN reg
        reg1 == IF first THEN SetItem(reg, type_name(type), Empty) ELSE reg
        gs1 == IF first THEN InstallGetter(gs, constructor, type) ELSE gs
    IN  [err |-> "",
         registry |-> [reg1 EXCEPT ![type_name(type)] = SetItem(@, name, constructor)],
         getters |-> gs1]

RECURSIVE register_all(_, _, _, _, _)
\* Registry.register_all(base_class, class_dict), from item number i on;
\* class_dict is the sequence of the dict's items in iteration order
register_all(reg, gs, base_class, class_dict, i) ==
    IF i > Len(class_dict)
    THEN [err |-> "", registry |-> reg, getters |-> gs]
    ELSE
    LET r == register(reg, gs, class_dict[i].name, class_dict[i].constructor, base_class)
    IN  IF r.err # "" THEN r
        ELSE register_all(r.registry, r.getters, base_class, class_dict, i + 1)

\* history of registrations
Record(hist, type, name, constructor) ==
    IF IsRegistrable(type) THEN SetItem(hist, <<type_name(type), name>>, constructor) ELSE hist

RECURSIVE RecordAll(_, _, _, _)
RecordAll(hist, type, class_dict, i) ==
    IF i > Len(class_dict) THEN hist
    ELSE RecordAll(Record(hist, type, class_dict[i].name, class_dict[i].constructor),
                   type, class_dict, i + 1)

-----------------------------------------------------------------------------
(* Inputs *)

Item(name, constructor) == [name |-> name, constructor |-> constructor]

ClassDicts(type) ==
    CASE type = "F" -> {<<Item("A", "F0"), Item("B", "F1")>>,
                        <<Item("A", "F1"), Item("B", "F0")>>}
      [] type = "G" -> {<<Item("A", "G1")>>}
      [] type = "H" -> {<<Item("A", "H1")>>}
      [] OTHER -> {<<Item("A", "F0")>>}

ConstructorsOf(type) == IF IsRegistrable(type) THEN {c \in Ctors : Base(c) = type} ELSE {"F0"}

Arg(flag, text) == [flag |-> flag, text |-> text]

\* the command lines of a run
ArgvChoices ==
    { <<>>,
      <<Arg(pX, "5")>>,
      <<Arg(pXY, "5")>>,
      <<Arg(pSub, FragText)>>,
      <<Arg(pfxA \o dot \o pSub \o dot \o pSub, "5")>>,
      <<Arg(pSub \o dot \o pX, "3.5")>>,
      <<Arg(pfxA \o dot \o pSub \o dot \o pX, "3.5"), Arg(pfxA \o dot \o pSub \o dot \o pX, "5")>> }

Prefixes == {NonePrefix, pfxA}

\* configuration documents as a configuration loader hands them over
HDocs == {PyDict("A", pXY :> PyScalar("bool", "True"))}

GDocs ==
    {PyDict("A", Empty), PyDict("Z", Empty)} \cup {PyDict("A", pSub :> h) : h \in HDocs}

FKwargs ==
    {Empty, pXY :> PyScalar("str", "abc"), pX :> PyScalar("float", "3.5")}
    \cup {pSub :> g : g \in GDocs}

FDocs ==
    {PyDict(n, kw) : n \in {"A", "B"}, kw \in FKwargs}
    \cup {PyDict("Z", pXY :> PyScalar("str", "abc"))}

\* the documents a caller resolves through get_<type name>
Documents(type) ==
    {PyNone} \cup (CASE type = "F" -> FDocs [] type = "G" -> GDocs [] type = "H" -> HDocs)

-----------------------------------------------------------------------------
(* The state machine *)

NoSession == "none"

NoCall ==
    [op |-> "none", type |-> "", name |-> "", constructor |-> NoCtor,
     prefix |-> NonePrefix, src |-> "", arg |-> PyNone,
     res |-> NoValue, err |-> "", errName |-> "", calls |-> <<>>, parses |-> <<>>,
     registry |-> Empty, getters |-> Empty, heap |-> <<>>]

Init ==
    /\ registry = Empty
    /\ getters = Empty
    /\ argv \in ArgvChoices
    /\ session = NoSession
    /\ doc = PyNone
    /\ heap = <<>>
    /\ ncalls = 0
    /\ latest = Empty
    /\ last = NoCall

\* registry.register(name, constructor, type)
Register(name, constructor, type) ==
    \E r \in {register(registry, getters, name, constructor, type)} :
        /\ session = NoSession
        /\ registry' = r.registry
        /\ getters' = r.getters
        /\ latest' = IF r.err = "" THEN Record(latest, type, name, constructor) ELSE latest
        /\ last' = [NoCall EXCEPT !.op = "register", !.type = type, !.name = name,
                                  !.constructor = constructor, !.err = r.err,
                                  !.registry = registry, !.getters = getters]
        /\ UNCHANGED <<argv, session, doc, heap, ncalls>>

\* registry.register_all(base_class, class_dict)
RegisterAll(base_class, class_dict) ==
    \E r \in {register_all(registry, getters, base_class, class_dict, 1)} :
        /\ session = NoSession
        /\ registry' = r.registry
        /\ getters' = r.getters
        /\ latest' = IF r.err = "" THEN RecordAll(latest, base_class, class_dict, 1)
                      ELSE latest
        /\ last' = [NoCall EXCEPT !.op = "register_all", !.type = base_class,
                                  !.err = r.err,
                                  !.registry = registry, !.getters = getters]
        /\ UNCHANGED <<argv, session, doc, heap, ncalls>>

\* a caller loads a configuration document to resolve with get_<type name>
Load(type, document) ==
    /\ session = NoSession
    /\ session' = type
    /\ doc' = document
    /\ last' = [NoCall EXCEPT !.op = "load", !.type = type, !.arg = document]
    /\ UNCHANGED <<registry, getters, argv, heap, ncalls, latest>>

\* registry.get_<type name>(object_or_config, prefix), on the caller's
\* document (src = "doc") or on what the previous get returned (src = "res")
Get(prefix, src) ==
    /\ session # NoSession
    /\ ncalls < MaxCalls
    /\ src = "res" => last.op = "get" /\ last.err = ""
    /\ \E object_or_config \in {IF src = "doc" THEN doc ELSE last.res} :
       \E r \in {get(session, object_or_config, prefix, heap)} :
           /\ doc' = IF src = "doc" THEN r.val ELSE doc
           /\ heap' = r.heap
           /\ last' = [NoCall EXCEPT !.op = "get", !.type = session, !.prefix = prefix,
                                     !.src = src,
                                     !.arg = object_or_config, !.res = r.res,
                                     !.err = r.err, !.errName = r.errName,
                                     !.calls = r.calls, !.parses = r.parses,
                                     !.registry = registry, !.getters = getters,
                                     !.heap = heap]
    /\ ncalls' = ncalls + 1
    /\ UNCHANGED <<registry, getters, argv, session, latest>>

\* the caller drops the document and the objects built from it
EndSession ==
    /\ session # NoSession
    /\ session' = NoSession
    /\ doc' = PyNone
    /\ heap' = <<>>
    /\ ncalls' = 0
    /\ last' = NoCall
    /\ UNCHANGED <<registry, getters, argv, latest>>

Next ==
    \/ \E type \in FamilyTypes \cup OtherTypes :
            \E name \in VariantNames(type), constructor \in ConstructorsOf(type) :
                Register(name, constructor, type)
    \/ \E base_class \in FamilyTypes \cup OtherTypes :
            \E class_dict \in ClassDicts(base_class) : RegisterAll(base_class, class_dict)
    \/ \E type \in FamilyTypes : \E document \in Documents(type) : Load(type, document)
    \/ \E prefix \in Prefixes, src \in {"doc", "res"} : Get(prefix, src)
    \/ EndSession

Spec == Init /\ [][Next]_vars

-----------------------------------------------------------------------------
(* Properties *)

IsGet == last.op = "get"

\* the getter of the call's type existed when the call was made
Installed == type_name(last.type) \in DOMAIN last.getters

\* the option string <prefix>.<p>, or <p> without a prefix
Flag(prefix, p) == IF prefix = NonePrefix THEN p ELSE prefix \o dot \o p

\* the texts the command line gives for exactly this option string
TextsOf(flag) == {argv[i].text : i \in {j \in 1..Len(argv) : argv[j].flag = flag}}

\* the call changed neither the registry nor the heap and invoked nothing
NothingDone ==
    /\ last.calls = <<>>
    /\ last.parses = <<>>
    /\ heap = last.heap
    /\ registry = last.registry
    /\ getters = last.getters

\* the argument was an instance of the call's type
ArgIsInstance ==
    /\ last.arg.k = "obj"
    /\ last.heap[last.arg.id].kind = "inst"
    /\ Base(last.heap[last.arg.id].ctor) = last.type

\* C1: every constructor invoked by a get receives, for each parameter it
\* declares whose annotation is a registered family and that is present in
\* its kwargs, a resolved value, never a raw fragment
C1_NestedResolved ==
    \A i \in 1..Len(last.calls) :
        LET e == last.calls[i]
        IN  \A p \in ParamNames(e.ctor) \cap DOMAIN e.kwargs :
                (/\ IsRegistrable(Annotation(e.ctor, p))
                 /\ type_name(Annotation(e.ctor, p)) \in DOMAIN getters)
                => e.kwargs[p].k # "dict"

\* C2: the kwargs of the constructor call of a successful get on a fragment
\* are the fragment's kwargs overridden by the command line: a parameter
\* whose flag <prefix>.<p> was supplied has a value converted from a
\* supplied text, a parameter without a flag keeps the fragment's value,
\* and one with neither is absent
C2_OverridePrecedence ==
    (IsGet /\ last.err = "" /\ last.arg.k = "dict") =>
        LET e == last.calls[Len(last.calls)]
            fk == last.arg.kw
        IN  \A p \in ParamNames(e.ctor) :
                LET texts == TextsOf(Flag(last.prefix, p))
                    primitive == ~IsRegistrable(Annotation(e.ctor, p))
                IN  IF texts # {}
                    THEN /\ p \in DOMAIN e.kwargs
                         /\ primitive =>
                              \E t \in texts :
                                  e.kwargs[p] \in {safe_load(t), Construct(Annotation(e.ctor, p), t)}
                    ELSE IF p \in DOMAIN fk
                    THEN /\ p \in DOMAIN e.kwargs
                         /\ primitive => e.kwargs[p] = fk[p]
                    ELSE p \notin DOMAIN e.kwargs

\* C3: the tables hold, for every (family, name) ever registered, the
\* constructor most recently registered; a register call on a Registrable
\* type raises nothing and changes that one entry only; and a get on
\* {"name": n, "kwargs": {}} that returns returns a new object built by that
\* constructor (and does return when the command line is empty)
C3_Dispatch ==
    /\ \A key \in DOMAIN latest :
            /\ key[1] \in DOMAIN registry
            /\ key[2] \in DOMAIN registry[key[1]]
            /\ registry[key[1]][key[2]] = latest[key]
    /\ \A tn \in DOMAIN registry : \A n \in DOMAIN registry[tn] : <<tn, n>> \in DOMAIN latest
    /\ (last.op = "register" /\ IsRegistrable(last.type)) =>
            /\ last.err = ""
            /\ registry[type_name(last.type)][last.name] = last.constructor
            /\ \A tn \in DOMAIN last.registry : \A n \in DOMAIN last.registry[tn] :
                    <<tn, n>> # <<type_name(last.type), last.name>>
                    => registry[tn][n] = last.registry[tn][n]
    /\ (/\ IsGet
        /\ last.arg.k = "dict"
        /\ last.arg.kw = Empty
        /\ <<type_name(last.type), last.arg.s>> \in DOMAIN latest) =>
            /\ argv = <<>> => last.err = "" /\ Len(last.calls) = 1
            /\ last.err = "" =>
                /\ last.res.k = "obj"
                /\ last.res.id > Len(last.heap)
                /\ heap[last.res.id].ctor = latest[<<type_name(last.type), last.arg.s>>]
                /\ last.calls[Len(last.calls)].ctor = heap[last.res.id].ctor
                /\ last.calls[Len(last.calls)].id = last.res.id

\* a variant re-registered with another constructor is resolved
C3_Witness ==
    /\ IsGet
    /\ last.err = ""
    /\ last.type = "F"
    /\ last.arg = PyDict("A", Empty)
    /\ getters["f"].constructor = "F0"
    /\ DOMAIN registry["f"] = {"A"}
    /\ heap[last.res.id].ctor = "F1"

\* C4 as claimed: get applied to what get of the same family returned
\* succeeds and returns it
C4_Idempotent ==
    (IsGet /\ last.src = "res") => (last.err = "" /\ last.res = last.arg)

\* C4 as amended: get applied to what get of the same family returned
\* returns it unchanged, building nothing, when that is None or an instance
\* of the family's type; it raises TypeError when that is the partial a
\* CallableType variant returns
C4_IdempotentOnInstances ==
    (IsGet /\ last.src = "res") =>
        IF last.arg = PyNone \/ ArgIsInstance
        THEN last.err = "" /\ last.res = last.arg /\ NothingDone
        ELSE /\ last.arg.k = "obj"
             /\ last.heap[last.arg.id].kind = "partial"
             /\ last.err = "TypeError"

C4_Witness ==
    /\ IsGet
    /\ last.src = "res"
    /\ ArgIsInstance
    /\ last.res = last.arg

\* C5: a parse for the constructor resolved at a prefix takes a value for
\* parameter p only from a flag named exactly <prefix>.<p>, and rejects no
\* command line
C5_ScopedByExactFlag ==
    \A i \in 1..Len(last.parses) :
        LET e == last.parses[i]
        IN  /\ e.err # "SystemExit"
            /\ \A p \in DOMAIN e.raw : TextsOf(Flag(e.prefix, p)) # {}

\* C6: the value of a supplied flag is the text converted by the parameter's
\* primitive type when it is annotated int, bool, str or float, and the
\* text loaded as YAML otherwise
C6_PrimitiveCoercion ==
    \A i \in 1..Len(last.parses) :
        LET e == last.parses[i]
        IN  \A p \in DOMAIN e.parsed :
                e.parsed[p] =
                    IF Annotation(e.ctor, p) \in PrimitiveTypes
                    THEN Construct(Annotation(e.ctor, p), e.raw[p])
                    ELSE safe_load(e.raw[p])

\* C7: a get on a fragment returns a new object, and no two objects built
\* from calls on a document share a nested object
C7_FreshInstances ==
    /\ (IsGet /\ last.arg.k = "dict" /\ last.err = "") => last.res.id > Len(last.heap)
    /\ \A i, j \in 1..Len(heap) :
            i # j =>
                \A p \in DOMAIN heap[i].kwargs, q \in DOMAIN heap[j].kwargs :
                    heap[i].kwargs[p].k = "obj" => heap[i].kwargs[p] # heap[j].kwargs[q]

\* C8: get on None returns None and get on an instance of the family's type
\* returns that instance; neither invokes a constructor, parses the command
\* line or changes the registry
C8_PassThrough ==
    (IsGet /\ Installed) =>
        /\ last.arg = PyNone => (last.err = "" /\ last.res = PyNone /\ NothingDone)
        /\ ArgIsInstance => (last.err = "" /\ last.res = last.arg /\ NothingDone)

C8_Witness ==
    /\ IsGet
    /\ ArgIsInstance
    /\ last.res = last.arg
    /\ last.prefix = pfxA
    /\ argv # <<>>

\* C9: get on a fragment naming no registered variant of the family raises
\* the error naming it, invokes no constructor and changes neither the
\* registry nor the fragment; and a get that raised returned nothing and
\* did not invoke the outer constructor
C9_UnknownVariant ==
    /\ (/\ IsGet
        /\ Installed
        /\ last.arg.k = "dict"
        /\ last.arg.s \notin DOMAIN last.registry[type_name(last.type)]) =>
            /\ last.err = "ValueError"
            /\ last.errName = last.arg.s
            /\ last.res = NoValue
            /\ NothingDone
            /\ doc = last.arg
    /\ (IsGet /\ last.err # "") =>
            /\ last.res = NoValue
            /\ \A i \in 1..Len(last.calls) : last.calls[i].prefix # last.prefix

C9_Witness ==
    /\ IsGet
    /\ Installed
    /\ last.arg.k = "dict"
    /\ last.arg.s = "Z"
    /\ last.arg.kw # Empty
    /\ last.err = "ValueError"

\* C10: the getter of a family exists exactly when a variant of it was
\* registered; it was set once, no later register or get sets it again; and
\* resolving a family without a getter, directly or for a nested
\* parameter, raises and returns nothing
C10_GetterPerFamily ==
    /\ DOMAIN getters = {key[1] : key \in DOMAIN latest}
    /\ \A tn \in DOMAIN getters : getters[tn].installs = 1
    /\ last.op \in {"register", "register_all", "get"} =>
            \A tn \in DOMAIN last.getters :
                tn \in DOMAIN getters /\ getters[tn] = last.getters[tn]
    /\ (IsGet /\ ~Installed) =>
            /\ last.err = "AttributeError"
            /\ last.res = NoValue
            /\ last.calls = <<>>
            /\ heap = last.heap
    /\ (IsGet /\ last.err = "AttributeError") =>
            /\ last.errName \notin DOMAIN getters
            /\ last.res = NoValue

\* a nested parameter of a family never registered is resolved while
\* another family is registered
C10_Witness ==
    /\ IsGet
    /\ Installed
    /\ last.err = "AttributeError"
    /\ last.errName = "g"

====
